---- MODULE Spec2Model ----
(***************************************************************************)
(* Model of src/shared/components/query/SearchClause.tsx: the phrases      *)
(* (DefaultPhrase, ListPhrase) and the clauses (NotSearchClause,           *)
(* AndSearchClause) of the study search query.                             *)
(*                                                                         *)
(* A string is a sequence of one-character strings, so that split, join,   *)
(* indexOf and toLowerCase are computed character by character.            *)
(* Every operation of the file is a pure method of an immutable object: a  *)
(* behaviour picks a receiver (this) and an argument (arg), and one action *)
(* per method stores what the method returns in ret.                       *)
(***************************************************************************)
EXTENDS Integers, Sequences, FiniteSets, TLC

VARIABLES pc, op, ctor, this, arg, ret

vars == <<pc, op, ctor, this, arg, ret>>

---------------------------------------------------------------------------
(* Bounds of the input domains *)

MaxPhraseLen == 3
MaxValueLen == 2
MaxEqLen == 2
MaxTextLen == 3
MaxFields == 2
MaxPhrases == 3

\* characters of phrase strings
Chars == {"b", "B", ","}
\* characters of study field values
ValueChars == {"b", "B"}
\* characters of textRepresentation
TextChars == {"t", ":"}
\* CancerTreeNodeFields
FieldNames == {"name", "studyId"}

RECURSIVE StringsOver(_, _)
StringsOver(alphabet, n) ==
    IF n = 0 THEN {<<>>}
    ELSE LET shorter == StringsOver(alphabet, n - 1)
         IN  shorter \cup {Append(s, c) : s \in shorter, c \in alphabet}

SeqsUpTo(S, n) == StringsOver(S, n)

---------------------------------------------------------------------------
(* Constants of the file *)

FILTER_SEPARATOR == ":"
FILTER_VALUE_SEPARATOR == ","
NOT_PREFIX == "-"

\* null / undefined
Null == [kind |-> "null"]

---------------------------------------------------------------------------
(* String primitives of the JavaScript runtime *)

ToLowerChar(c) == IF c = "B" THEN "b" ELSE IF c = "A" THEN "a" ELSE c

ToLowerCase(s) == [i \in 1..Len(s) |-> ToLowerChar(s[i])]

\* String.prototype.indexOf: the first (0-based) position of pat in text, or -1
IndexOf(text, pat) ==
    LET hits == {i \in 0..(Len(text) - Len(pat)) :
                    SubSeq(text, i + 1, i + Len(pat)) = pat}
    IN  IF hits = {} THEN -1
        ELSE CHOOSE i \in hits : \A j \in hits : i <= j

\* a split that stops at the first separator
Split_Once(s, sep) ==
    LET at == {i \in 1..Len(s) : s[i] = sep}
    IN  IF at = {} THEN <<s>>
        ELSE LET i == CHOOSE k \in at : \A j \in at : k <= j
             IN  <<SubSeq(s, 1, i - 1), SubSeq(s, i + 1, Len(s))>>

\* String.prototype.split on a one-character separator
RECURSIVE Split(_, _)
Split(s, sep) ==
    LET at == {i \in 1..Len(s) : s[i] = sep}
    IN  IF at = {} THEN <<s>>
        ELSE LET i == CHOOSE k \in at : \A j \in at : k <= j
             IN  <<SubSeq(s, 1, i - 1)>> \o Split(SubSeq(s, i + 1, Len(s)), sep)

\* Array.prototype.join with a one-character separator
RECURSIVE Join(_, _)
Join(list, sep) ==
    IF list = <<>> THEN <<>>
    ELSE IF Len(list) = 1 THEN list[1]
    ELSE list[1] \o <<sep>> \o Join(Tail(list), sep)

\* _.isEqual on two arrays of strings
IsEqual(a, b) ==
    /\ Len(a) = Len(b)
    /\ \A i \in 1..Len(a) : a[i] = b[i]

\* truthiness of a string
Truthy(s) == s # <<>>

---------------------------------------------------------------------------
(* function matchPhrase *)

\* a matchPhrase that compares the cases too
matchPhrase_CaseSensitive(phrase, fullText) ==
    IndexOf(fullText, phrase) > -1

matchPhrase(phrase, fullText) ==
    IndexOf(ToLowerCase(fullText), ToLowerCase(phrase)) > -1

\* a CancerTreeNode: the fields it has, each with a string value
Study(values) == [kind |-> "study", values |-> values]

\* (study as any)[fieldName]
FieldValue(study, fieldName) == study.values[fieldName]

\* if (fieldValue): the field is set and its value is not the empty string
FieldPresent(study, fieldName) ==
    /\ fieldName \in DOMAIN study.values
    /\ Truthy(FieldValue(study, fieldName))

---------------------------------------------------------------------------
(* class DefaultPhrase *)

DefaultPhrase(phrase, textRepresentation, fields) ==
    [kind |-> "default",
     _fields |-> fields,
     _phrase |-> phrase,
     _textRepresentation |-> textRepresentation]

(* class ListPhrase *)

ListPhrase(phrase, textRepresentation, fields) ==
    [kind |-> "list",
     _fields |-> fields,
     _phraseList |-> Split(phrase, FILTER_VALUE_SEPARATOR),
     _textRepresentation |-> textRepresentation,
     _prefix |-> Split(textRepresentation, FILTER_SEPARATOR)[1]]

IsPhrase(p) == p.kind \in {"default", "list"}

\* get phrase(): the stored string, or the list rejoined
DefaultPhrase_phrase(p) == p._phrase

ListPhrase_phrase(p) == Join(p._phraseList, FILTER_VALUE_SEPARATOR)

Phrase_phrase(p) ==
    IF p.kind = "default" THEN DefaultPhrase_phrase(p) ELSE ListPhrase_phrase(p)

\* get fields()
Phrase_fields(p) == p._fields

\* get prefix(), get phraseList()
ListPhrase_prefix(p) == p._prefix

ListPhrase_phraseList(p) == p._phraseList

\* toString() of both classes
Phrase_toString(p) == p._textRepresentation

\* o._phraseList is defined (an array, always truthy) on a ListPhrase only
Has_phraseList(o) == o.kind = "list"

\* DefaultPhrase.equals: other is read through its phrase and fields getters,
\* which both classes have; fields is an array, which is always truthy
DefaultPhrase_equals(self, other) ==
    IF ~IsPhrase(other) THEN FALSE
    ELSE IF ~Truthy(Phrase_phrase(other)) THEN FALSE
    ELSE IF Phrase_phrase(self) # Phrase_phrase(other) THEN FALSE
    ELSE IsEqual(Phrase_fields(self), Phrase_fields(other))

\* ListPhrase.equals: other is read through its _phraseList field, which only
\* a ListPhrase has; fields is an array, which is always truthy
ListPhrase_equals(self, other) ==
    IF ~IsPhrase(other) THEN FALSE
    ELSE IF ~Has_phraseList(other) THEN FALSE
    ELSE IF ~IsEqual(self._phraseList, other._phraseList) THEN FALSE
    ELSE IsEqual(Phrase_fields(self), Phrase_fields(other))

Phrase_equals(self, other) ==
    IF self.kind = "default" THEN DefaultPhrase_equals(self, other)
    ELSE ListPhrase_equals(self, other)

\* DefaultPhrase.match: the loop over this.fields, from anyFieldMatch
RECURSIVE DefaultFieldLoop(_, _, _, _)
DefaultFieldLoop(self, study, fields, anyFieldMatch) ==
    IF fields = <<>> THEN anyFieldMatch
    ELSE LET fieldName == Head(fields)
             fieldMatch == IF FieldPresent(study, fieldName)
                           THEN matchPhrase(Phrase_phrase(self), FieldValue(study, fieldName))
                           ELSE FALSE
         IN  DefaultFieldLoop(self, study, Tail(fields),
                              anyFieldMatch \/ fieldMatch)

DefaultPhrase_match(self, study) ==
    DefaultFieldLoop(self, study, Phrase_fields(self), FALSE)

\* ListPhrase.match: the inner loop over _phraseList assigns fieldMatch on
\* every entry, each time from this.phrase
RECURSIVE ListEntryLoop(_, _, _, _)
ListEntryLoop(self, entries, fieldValue, fieldMatch) ==
    IF entries = <<>> THEN fieldMatch
    ELSE ListEntryLoop(self, Tail(entries), fieldValue,
                       matchPhrase(Phrase_phrase(self), fieldValue))

RECURSIVE ListFieldLoop(_, _, _, _)
ListFieldLoop(self, study, fields, anyFieldMatch) ==
    IF fields = <<>> THEN anyFieldMatch
    ELSE LET fieldName == Head(fields)
             fieldMatch == IF FieldPresent(study, fieldName)
                           THEN ListEntryLoop(self, self._phraseList,
                                              FieldValue(study, fieldName), FALSE)
                           ELSE FALSE
         IN  ListFieldLoop(self, study, Tail(fields),
                           anyFieldMatch \/ fieldMatch)

ListPhrase_match(self, study) ==
    ListFieldLoop(self, study, Phrase_fields(self), FALSE)

Phrase_match(self, study) ==
    IF self.kind = "default" THEN DefaultPhrase_match(self, study)
    ELSE ListPhrase_match(self, study)

---------------------------------------------------------------------------
(* Arguments of contains: null, a predicate function, or a Phrase *)

Predicates == {"always", "never", "isListPhrase", "hasEmptyPhrase"}

PredicateFn(name) == [kind |-> "function", name |-> name]

IsFunction(match) == match.kind = "function"

\* match(phrase) for a predicate function
Apply(match, phrase) ==
    CASE match.name = "always" -> TRUE
      [] match.name = "never" -> FALSE
      [] match.name = "isListPhrase" -> phrase.kind = "list"
      [] match.name = "hasEmptyPhrase" -> ~Truthy(Phrase_phrase(phrase))

---------------------------------------------------------------------------
(* class NotSearchClause, class AndSearchClause *)

NotSearchClause(phrase) == [kind |-> "clause", type |-> "not", phrase |-> phrase]

AndSearchClause(phrases) == [kind |-> "clause", type |-> "and", phrases |-> phrases]

IsClause(c) == c.kind = "clause"

isAnd(clause) == clause.type = "and"

isNot(clause) == clause.type = "not"

getPhrases(clause) ==
    IF isNot(clause) THEN <<clause.phrase>> ELSE clause.phrases

NotSearchClause_toString(self) ==
    IF IsPhrase(self.phrase)
    THEN <<NOT_PREFIX, " ">> \o Phrase_toString(self.phrase)
    ELSE <<>>

\* this.phrases.map(p => p.toString())
MapToString(phrases) == [i \in 1..Len(phrases) |-> Phrase_toString(phrases[i])]

\* a toString that joins with join()'s default separator
AndSearchClause_toString_DefaultJoin(self) ==
    IF Len(self.phrases) # 0
    THEN Join(MapToString(self.phrases), ",")
    ELSE <<>>

AndSearchClause_toString(self) ==
    IF Len(self.phrases) # 0
    THEN Join(MapToString(self.phrases), " ")
    ELSE <<>>

Clause_toString(self) ==
    IF isNot(self) THEN NotSearchClause_toString(self)
    ELSE AndSearchClause_toString(self)

NotSearchClause_contains(self, match) ==
    IF match.kind = "null" THEN ~IsPhrase(self.phrase)
    ELSE IF IsFunction(match) THEN Apply(match, self.phrase)
    ELSE Phrase_equals(self.phrase, match)

\* for (const phrase of this.phrases) if (match(phrase)) return true
RECURSIVE AnySatisfies(_, _)
AnySatisfies(phrases, match) ==
    IF phrases = <<>> THEN FALSE
    ELSE IF Apply(match, Head(phrases)) THEN TRUE
    ELSE AnySatisfies(Tail(phrases), match)

\* a loop that returns on its first iteration
AnyEquals_FirstOnly(phrases, match) ==
    IF phrases = <<>> THEN FALSE
    ELSE Phrase_equals(Head(phrases), match)

\* for (const phrase of this.phrases) if (phrase.equals(match)) return true
RECURSIVE AnyEquals(_, _)
AnyEquals(phrases, match) ==
    IF phrases = <<>> THEN FALSE
    ELSE IF Phrase_equals(Head(phrases), match) THEN TRUE
    ELSE AnyEquals(Tail(phrases), match)

AndSearchClause_contains(self, match) ==
    IF match.kind = "null" THEN Len(self.phrases) = 0
    ELSE IF IsFunction(match) THEN AnySatisfies(self.phrases, match)
    ELSE AnyEquals(self.phrases, match)

Clause_contains(self, match) ==
    IF isNot(self) THEN NotSearchClause_contains(self, match)
    ELSE AndSearchClause_contains(self, match)

\* an equals without the isAnd test
NotSearchClause_equals_NoTypeTest(self, other) ==
    Clause_contains(other, self.phrase)

NotSearchClause_equals(self, other) ==
    IF isAnd(other) THEN FALSE
    ELSE Clause_contains(other, self.phrase)

\* for (const itemPhrase of items) containsAll = containsAll && c.contains(itemPhrase)
RECURSIVE ContainsAllLoop(_, _, _)
ContainsAllLoop(items, clause, containsAll) ==
    IF items = <<>> THEN containsAll
    ELSE ContainsAllLoop(Tail(items), clause,
                         containsAll /\ Clause_contains(clause, Head(items)))

AndSearchClause_equals(self, other) ==
    IF isNot(other) THEN FALSE
    ELSE LET itemPhrases == other.phrases
             afterThis == ContainsAllLoop(self.phrases, other, TRUE)
         IN  ContainsAllLoop(itemPhrases, self, afterThis)

Clause_equals(self, other) ==
    IF isNot(self) THEN NotSearchClause_equals(self, other)
    ELSE AndSearchClause_equals(self, other)

---------------------------------------------------------------------------
(* Input domains *)

FieldSeqs == SeqsUpTo(FieldNames, MaxFields)

PhraseClasses == {"DefaultPhrase", "ListPhrase"}

\* new DefaultPhrase(...) or new ListPhrase(...) from constructor arguments
NewPhrase(c) ==
    IF c.class = "DefaultPhrase"
    THEN DefaultPhrase(c.phrase, c.textRepresentation, c.fields)
    ELSE ListPhrase(c.phrase, c.textRepresentation, c.fields)

\* constructor arguments of the phrases compared by equals
EqPhraseArgs(texts) ==
    [class : PhraseClasses,
     phrase : StringsOver(Chars, MaxEqLen),
     textRepresentation : texts,
     fields : FieldSeqs]

\* constructor arguments of the phrases matched against a study
MatchPhraseArgs ==
    [class : PhraseClasses,
     phrase : StringsOver(Chars, MaxPhraseLen),
     textRepresentation : {<<"t">>},
     fields : FieldSeqs]

Studies ==
    UNION {{Study(v) : v \in [D -> StringsOver(ValueChars, MaxValueLen)]} :
              D \in SUBSET FieldNames}

\* constructor arguments of the list phrases whose getters are read
ListPhraseArgs ==
    [class : {"ListPhrase"},
     phrase : StringsOver(Chars, MaxPhraseLen),
     textRepresentation : StringsOver(TextChars, MaxTextLen),
     fields : {<<"name">>}]

\* phrase strings of the phrases held by clauses: the empty phrase and a list
ClausePhraseStrings == {<<>>, <<"b", ",", "B">>}

\* the serialized form the query parser gives a phrase: the phrase itself for a
\* free-text phrase, <prefix>:<phrase> for a list phrase
TextOf(class, phrase) ==
    IF class = "DefaultPhrase" THEN phrase
    ELSE <<"t", FILTER_SEPARATOR>> \o phrase

\* the phrases held by clauses
ClausePhrases ==
    {NewPhrase([class |-> c, phrase |-> s, textRepresentation |-> TextOf(c, s),
                fields |-> <<"name">>]) :
        c \in PhraseClasses, s \in ClausePhraseStrings}

\* constructor arguments of clauses that hold a phrase each, or several
NotClauseArgs == [class : {"NotSearchClause"}, phrase : ClausePhrases]

AndClauseArgs ==
    [class : {"AndSearchClause"}, phrases : SeqsUpTo(ClausePhrases, MaxPhrases)]

\* a not-clause without a phrase: outside the constructor's type, tolerated by
\* toString, by contains(null) and by equals against an and-clause
NotClauseNoPhrase == [class |-> "NotSearchClause", phrase |-> Null]

NewClause(c) ==
    IF c.class = "NotSearchClause" THEN NotSearchClause(c.phrase)
    ELSE AndSearchClause(c.phrases)

\* arguments of contains
ContainsArgs ==
    {Null} \cup {PredicateFn(n) : n \in Predicates} \cup ClausePhrases

\* constructor arguments of the phrases serialized on their own
ToStringPhraseArgs ==
    [class : PhraseClasses,
     phrase : ClausePhraseStrings,
     textRepresentation : StringsOver(TextChars, MaxTextLen),
     fields : {<<"name">>}]

---------------------------------------------------------------------------
(* Actions: the constructors *)

NewDefaultPhrase ==
    /\ pc = "new"
    /\ ctor.class = "DefaultPhrase"
    /\ this' = DefaultPhrase(ctor.phrase, ctor.textRepresentation, ctor.fields)
    /\ pc' = "ready"
    /\ op' = "new"
    /\ UNCHANGED <<ctor, arg, ret>>

NewListPhrase ==
    /\ pc = "new"
    /\ ctor.class = "ListPhrase"
    /\ this' = ListPhrase(ctor.phrase, ctor.textRepresentation, ctor.fields)
    /\ pc' = "ready"
    /\ op' = "new"
    /\ UNCHANGED <<ctor, arg, ret>>

NewNotSearchClause ==
    /\ pc = "new"
    /\ ctor.class = "NotSearchClause"
    /\ this' = NotSearchClause(ctor.phrase)
    /\ pc' = "ready"
    /\ op' = "new"
    /\ UNCHANGED <<ctor, arg, ret>>

NewAndSearchClause ==
    /\ pc = "new"
    /\ ctor.class = "AndSearchClause"
    /\ this' = AndSearchClause(ctor.phrases)
    /\ pc' = "ready"
    /\ op' = "new"
    /\ UNCHANGED <<ctor, arg, ret>>

(* Actions: the methods of a phrase *)

Return(name, value) ==
    /\ ret' = value
    /\ op' = name
    /\ pc' = "done"
    /\ UNCHANGED <<ctor, this, arg>>

PhraseEquals ==
    /\ pc = "ready"
    /\ IsPhrase(this)
    /\ IsPhrase(arg) \/ arg = Null
    /\ Return("equals", Phrase_equals(this, arg))

PhraseMatch ==
    /\ pc = "ready"
    /\ IsPhrase(this)
    /\ arg.kind = "study"
    /\ Return("match", Phrase_match(this, arg))

PhraseToString ==
    /\ pc = "ready"
    /\ IsPhrase(this)
    /\ arg = Null
    /\ Return("toString", Phrase_toString(this))

GetPhrase ==
    /\ pc = "ready"
    /\ IsPhrase(this)
    /\ arg = Null
    /\ Return("phrase", Phrase_phrase(this))

GetPrefix ==
    /\ pc = "ready"
    /\ this.kind = "list"
    /\ arg = Null
    /\ Return("prefix", ListPhrase_prefix(this))

GetPhraseList ==
    /\ pc = "ready"
    /\ this.kind = "list"
    /\ arg = Null
    /\ Return("phraseList", ListPhrase_phraseList(this))

---------------------------------------------------------------------------
(* Phrase equality: a phrase is built, then compared with another phrase or null *)

InitEquals ==
    /\ pc = "new"
    /\ op = "none"
    /\ ctor \in EqPhraseArgs({<<"t">>})
    /\ this = Null
    /\ arg \in {NewPhrase(c) : c \in EqPhraseArgs({<<"t">>, <<"u">>})} \cup {Null}
    /\ ret = Null

NextEquals == NewDefaultPhrase \/ NewListPhrase \/ PhraseEquals

SpecEquals == InitEquals /\ [][NextEquals]_vars

(* Phrase matching: a phrase is built, then matched against a study *)

InitMatch ==
    /\ pc = "new"
    /\ op = "none"
    /\ ctor \in MatchPhraseArgs
    /\ this = Null
    /\ arg \in Studies
    /\ ret = Null

NextMatch == NewDefaultPhrase \/ NewListPhrase \/ PhraseMatch

SpecMatch == InitMatch /\ [][NextMatch]_vars

(* List phrase: a list phrase is built, then its getters are read *)

InitList ==
    /\ pc = "new"
    /\ op = "none"
    /\ ctor \in ListPhraseArgs
    /\ this = Null
    /\ arg = Null
    /\ ret = Null

NextList == NewListPhrase \/ GetPhrase \/ GetPrefix \/ GetPhraseList

SpecList == InitList /\ [][NextList]_vars

---------------------------------------------------------------------------
(* Actions: the methods of a clause *)

ClauseEquals ==
    /\ pc = "ready"
    /\ IsClause(this)
    /\ IsClause(arg)
    /\ Return("equals", Clause_equals(this, arg))

ClauseContains ==
    /\ pc = "ready"
    /\ IsClause(this)
    /\ arg = Null \/ IsFunction(arg) \/ IsPhrase(arg)
    /\ Return("contains", Clause_contains(this, arg))

ClauseToString ==
    /\ pc = "ready"
    /\ IsClause(this)
    /\ arg = Null
    /\ Return("toString", Clause_toString(this))

(* Clauses: a clause is built, then compared with another clause, asked     *)
(* whether it contains a phrase, or serialized; a phrase is built and       *)
(* serialized on its own                                                    *)

InitClause ==
    /\ pc = "new"
    /\ op = "none"
    /\ this = Null
    /\ ret = Null
    /\ \/ /\ ctor \in NotClauseArgs \cup AndClauseArgs
          /\ arg \in {NewClause(c) : c \in NotClauseArgs \cup AndClauseArgs}
                     \cup ContainsArgs
       \/ /\ ctor = NotClauseNoPhrase
          /\ arg \in {NewClause(c) : c \in AndClauseArgs} \cup {Null}
       \/ /\ ctor \in AndClauseArgs
          /\ arg = NewClause(NotClauseNoPhrase)
       \/ /\ ctor \in ToStringPhraseArgs
          /\ arg = Null

NextClause ==
    \/ NewNotSearchClause
    \/ NewAndSearchClause
    \/ NewDefaultPhrase
    \/ NewListPhrase
    \/ ClauseEquals
    \/ ClauseContains
    \/ ClauseToString
    \/ PhraseToString

SpecClause == InitClause /\ [][NextClause]_vars

---------------------------------------------------------------------------
(* Notions the properties are stated with *)

\* the same letter, whatever its case
SameLetter(c, d) ==
    \/ c = d
    \/ {c, d} = {"a", "A"}
    \/ {c, d} = {"b", "B"}

\* text contains pat as a substring, compared case-insensitively
ContainsIgnoreCase(text, pat) ==
    \E k \in 0..(Len(text) - Len(pat)) :
        \A j \in 1..Len(pat) : SameLetter(text[k + j], pat[j])

\* where the i-th of the parts starts in their joined form (0-based)
RECURSIVE OffsetOf(_, _)
OffsetOf(parts, i) ==
    IF i = 1 THEN 0
    ELSE OffsetOf(parts, i - 1) + Len(parts[i - 1]) + 1

\* result is the parts, in order, with exactly one sep between neighbours
JoinedBy(result, parts, sep) ==
    IF Len(parts) = 0 THEN result = <<>>
    ELSE /\ Len(result) = OffsetOf(parts, Len(parts)) + Len(parts[Len(parts)])
         /\ \A i \in 1..Len(parts) :
               LET off == OffsetOf(parts, i)
               IN  /\ SubSeq(result, off + 1, off + Len(parts[i])) = parts[i]
                   /\ i > 1 => result[off] = sep

Returned(name) == pc = "done" /\ op = name

\* some phrase held by the clause is structurally equal to p
Holds(clause, p) ==
    \E i \in 1..Len(clause.phrases) : Phrase_equals(clause.phrases[i], p)

PhraseSet(clause) == {clause.phrases[i] : i \in 1..Len(clause.phrases)}

---------------------------------------------------------------------------
(* C1: AndSearchClause.equals is true iff every phrase of each clause is   *)
(* contained in the other, it is symmetric, and two and-clauses holding    *)
(* the same phrases, in any order and with any repetition, are equal.      *)
C1_AndEqualsSetEquality ==
    (Returned("equals") /\ isAnd(this) /\ isAnd(arg)) =>
        /\ ret = (/\ \A i \in 1..Len(this.phrases) : Holds(arg, this.phrases[i])
                  /\ \A i \in 1..Len(arg.phrases) : Holds(this, arg.phrases[i]))
        /\ ret = Clause_equals(arg, this)
        /\ PhraseSet(this) = PhraseSet(arg) => ret = TRUE

(* C2: phrase equality is reflexive and null-safe: P.equals(P) is true for *)
(* every phrase of either class, built from any phrase string, the empty   *)
(* one included, and P.equals(null) is false.                              *)
C2_PhraseEqualsReflexive ==
    Returned("equals") =>
        /\ arg = this => ret = TRUE
        /\ arg = Null => ret = FALSE

(* C3: DefaultPhrase.equals(other) is true iff other is a DefaultPhrase    *)
(* too, with the identical phrase string and the identical fields          *)
(* sequence; it is false for every ListPhrase.                             *)
C3_DefaultEqualsSameVariant ==
    (Returned("equals") /\ IsPhrase(this) /\ this.kind = "default") =>
        ret = (/\ IsPhrase(arg)
               /\ arg.kind = "default"
               /\ arg._phrase = ctor.phrase
               /\ arg._fields = ctor.fields)

(* C4: ListPhrase.match is true iff some field of fields has a present     *)
(* value on the study that contains, case-insensitively, the LAST entry of *)
(* phraseList.                                                             *)
C4_ListMatchLastEntry ==
    (Returned("match") /\ this.kind = "list") =>
        LET entries == this._phraseList
            last == entries[Len(entries)]
        IN  ret = \E i \in 1..Len(ctor.fields) :
                      /\ FieldPresent(arg, ctor.fields[i])
                      /\ ContainsIgnoreCase(FieldValue(arg, ctor.fields[i]), last)

(* C5: DefaultPhrase.match is true iff some field of fields has a present  *)
(* value on the study that contains phrase, case-insensitively; a phrase   *)
(* of either class does not match a study on which all its fields are      *)
(* absent or empty, and a phrase without fields never matches.             *)
C5_DefaultMatchAnyField ==
    Returned("match") =>
        /\ this.kind = "default" =>
              ret = \E i \in 1..Len(ctor.fields) :
                        /\ ctor.fields[i] \in DOMAIN arg.values
                        /\ arg.values[ctor.fields[i]] # <<>>
                        /\ ContainsIgnoreCase(arg.values[ctor.fields[i]],
                                              ctor.phrase)
        /\ (\A i \in 1..Len(ctor.fields) :
               \/ ctor.fields[i] \notin DOMAIN arg.values
               \/ arg.values[ctor.fields[i]] = <<>>) => ret = FALSE

\* a default phrase matched through its second field only, and only because
\* the comparison ignores case
C5_Witness ==
    /\ Returned("match")
    /\ this.kind = "default"
    /\ ctor.phrase = <<"B">>
    /\ ctor.fields = <<"name", "studyId">>
    /\ "name" \notin DOMAIN arg.values
    /\ "studyId" \in DOMAIN arg.values
    /\ arg.values["studyId"] = <<"b", "b">>
    /\ ret = TRUE

(* C6: a not-clause and an and-clause are never equal, in either direction *)
(* and whatever they hold.                                                 *)
C6_NotNeverEqualsAnd ==
    (Returned("equals") /\ IsClause(this) /\ this.type # arg.type) =>
        ret = FALSE

\* a not-clause compared with the and-clause that holds exactly its phrase,
\* a phrase that equals itself
C6_Witness ==
    /\ Returned("equals")
    /\ ctor.class = "NotSearchClause"
    /\ IsPhrase(ctor.phrase)
    /\ Phrase_equals(ctor.phrase, ctor.phrase)
    /\ arg = AndSearchClause(<<ctor.phrase>>)
    /\ ret = FALSE

(* C7: AndSearchClause.contains(null) is true iff the clause holds no      *)
(* phrase; contains(predicate) iff some held phrase satisfies it;          *)
(* contains(phrase) iff some held phrase equals it.                        *)
C7_AndContains ==
    (Returned("contains") /\ ctor.class = "AndSearchClause") =>
        LET held == ctor.phrases
        IN  /\ arg = Null => ret = (held = <<>>)
            /\ arg.kind = "function" =>
                  ret = \E i \in 1..Len(held) : Apply(arg, held[i])
            /\ IsPhrase(arg) =>
                  ret = \E i \in 1..Len(held) : Phrase_equals(held[i], arg)

\* the phrase asked for is the last of three held, and not the first two
C7_Witness ==
    /\ Returned("contains")
    /\ ctor.class = "AndSearchClause"
    /\ IsPhrase(arg)
    /\ Len(ctor.phrases) = 3
    /\ ~Phrase_equals(ctor.phrases[1], arg)
    /\ ~Phrase_equals(ctor.phrases[2], arg)
    /\ Phrase_equals(ctor.phrases[3], arg)
    /\ ret = TRUE

(* C8: NotSearchClause.toString is "- " followed by the phrase's           *)
(* textRepresentation, or empty without a phrase; AndSearchClause.toString *)
(* is the phrases' textRepresentations in order, one space between them,   *)
(* or empty without phrases; a phrase's toString is the textRepresentation *)
(* it was constructed with.                                                *)
C8_ToString ==
    Returned("toString") =>
        /\ ctor.class = "NotSearchClause" =>
              IF ctor.phrase = Null THEN ret = <<>>
              ELSE /\ Len(ret) = 2 + Len(ctor.phrase._textRepresentation)
                   /\ ret[1] = "-"
                   /\ ret[2] = " "
                   /\ SubSeq(ret, 3, Len(ret)) = ctor.phrase._textRepresentation
        /\ ctor.class = "AndSearchClause" =>
              JoinedBy(ret,
                       [i \in 1..Len(ctor.phrases) |->
                           ctor.phrases[i]._textRepresentation],
                       " ")
        /\ ctor.class \in PhraseClasses => ret = ctor.textRepresentation

\* an and-clause of three phrases, two of them with different texts
C8_Witness ==
    /\ Returned("toString")
    /\ ctor.class = "AndSearchClause"
    /\ Len(ctor.phrases) = 3
    /\ ctor.phrases[1]._textRepresentation = <<"t", ":", "b", ",", "B">>
    /\ ctor.phrases[2]._textRepresentation = <<"b", ",", "B">>
    /\ ret = <<"t", ":", "b", ",", "B", " ", "b", ",", "B", " ">>
                \o ctor.phrases[3]._textRepresentation

(* C9: a ListPhrase's phraseList is its input phrase split on ',', its     *)
(* phrase getter gives the input phrase back, and its prefix is the part   *)
(* of textRepresentation before the first ':' (all of it without a ':').   *)
C9_ListPhraseRoundTrip ==
    /\ Returned("phraseList") =>
          /\ Len(ret) = Cardinality({i \in 1..Len(ctor.phrase) :
                                        ctor.phrase[i] = ","}) + 1
          /\ \A i \in 1..Len(ret) : \A j \in 1..Len(ret[i]) : ret[i][j] # ","
          /\ JoinedBy(ctor.phrase, ret, ",")
    /\ Returned("phrase") => ret = ctor.phrase
    /\ Returned("prefix") =>
          LET text == ctor.textRepresentation
          IN  /\ Len(ret) <= Len(text)
              /\ ret = SubSeq(text, 1, Len(ret))
              /\ \A j \in 1..Len(ret) : ret[j] # ":"
              /\ Len(ret) < Len(text) => text[Len(ret) + 1] = ":"

\* the list of ",b," has three entries, the first and the last empty
C9_Witness ==
    /\ Returned("phraseList")
    /\ ctor.phrase = <<",", "b", ",">>
    /\ ret = <<<<>>, <<"b">>, <<>>>>

(* C10: phrase equality is symmetric across the two classes, and so is the *)
(* equality of two not-clauses built on it.                                *)
C10_EqualsSymmetric ==
    (Returned("equals") /\ ctor.class = "NotSearchClause"
                        /\ IsClause(arg) /\ isNot(arg)) =>
        /\ Phrase_equals(this.phrase, arg.phrase)
              = Phrase_equals(arg.phrase, this.phrase)
        /\ ret = Clause_equals(arg, this)

====
